---- MODULE Spec2Model ----
(***************************************************************************)
(* Model of src/src/otterscan-client.ts: the retrying dispatcher           *)
(* (OtterscanClient.makeRpcCall), the backward address-history traversal   *)
(* (getAllTransactionsForAddress) and the forward block traversal          *)
(* (getBlockWithTransactions).                                             *)
(*                                                                         *)
(* One action is one run of the code between two suspension points (the    *)
(* await of provider.send and the await of the retry timer).  The          *)
(* transport and the server behind it are the environment: every attempt   *)
(* may be rejected with any message, or be answered from the chain the     *)
(* server holds.                                                           *)
(*                                                                         *)
(* JavaScript strings are sequences of one-character strings; an absent    *)
(* (undefined) option is <<>> and a supplied one is <<v>>.                 *)
(***************************************************************************)
EXTENDS Integers, Sequences, FiniteSets, TLC

(* ---------------------------- bounds ----------------------------------- *)
MaxRetries == 2     \* largest retries value a caller supplies
MaxBlock == 2       \* block numbers of the server's records are 0..MaxBlock
MaxTxs == 2         \* records in one address history
MaxPageSize == 2    \* largest pageSize a caller passes

(* ------------------------ program constants ---------------------------- *)
DefaultTimeout == 30000
DefaultRetries == 3
DefaultRetryDelay == 1000
BlockPageSize == 100

UnknownError == "Unknown error"
Messages == {"ECONNRESET", "ETIMEDOUT"}   \* messages of transport failures

VARIABLES
    supplied,   \* the options argument the client was constructed with
    options,    \* this.options
    chain,      \* what the server holds: an address history and a block
    op,         \* the public operation called last
    outcome,    \* how that operation ended, or "pending"
    rpc,        \* the frame of the makeRpcCall in progress
    log,        \* what the makeRpcCall in progress has done so far
    back,       \* the frame of getAllTransactionsForAddress
    fwd,        \* the frame of getBlockWithTransactions
    requests,   \* the makeRpcCall invocations of the operation, in order
    pages,      \* the pages the operation has received, in order
    subs        \* the calls a composite operation has issued, in order

vars == <<supplied, options, chain, op, outcome, rpc, log, back, fwd, requests, pages, subs>>

(* --------------------- hex encoding and parsing ------------------------ *)
HexDigits == <<"0", "1", "2", "3", "4", "5", "6", "7",
               "8", "9", "a", "b", "c", "d", "e", "f">>

IsHexDigit(c) == \E i \in 1..16 : HexDigits[i] = c

DigitValue(c) == (CHOOSE i \in 1..16 : HexDigits[i] = c) - 1

RECURSIVE NatToString16(_)
NatToString16(n) ==
    IF n < 16 THEN <<HexDigits[n + 1]>>
    ELSE NatToString16(n \div 16) \o <<HexDigits[(n % 16) + 1]>>

\* Number.prototype.toString(16): a negative number keeps its minus sign
ToString16(n) == IF n < 0 THEN <<"-">> \o NatToString16(-n) ELSE NatToString16(n)

\* the template `0x${n.toString(16)}`
Hex(n) == <<"0", "x">> \o ToString16(n)

NaN == [nan |-> TRUE, val |-> 0]
Number(n) == [nan |-> FALSE, val |-> n]

RECURSIVE DigitPrefix(_)
DigitPrefix(s) ==
    IF s = <<>> \/ ~IsHexDigit(Head(s)) THEN <<>>
    ELSE <<Head(s)>> \o DigitPrefix(Tail(s))

RECURSIVE DigitsValue(_, _)
DigitsValue(s, acc) ==
    IF s = <<>> THEN acc ELSE DigitsValue(Tail(s), acc * 16 + DigitValue(Head(s)))

\* parseInt(s, 16): optional sign, optional 0x, then the longest run of hex
\* digits; NaN when that run is empty
ParseInt16(s) ==
    LET negative == s # <<>> /\ Head(s) = "-"
        unsigned == IF s # <<>> /\ Head(s) \in {"-", "+"} THEN Tail(s) ELSE s
        stripped == IF Len(unsigned) >= 2 /\ unsigned[1] = "0" /\ unsigned[2] = "x"
                    THEN Tail(Tail(unsigned)) ELSE unsigned
        digits == DigitPrefix(stripped)
    IN  IF digits = <<>> THEN NaN
        ELSE Number(IF negative THEN -DigitsValue(digits, 0) ELSE DigitsValue(digits, 0))

(* ----------------------------- constructor ----------------------------- *)
Absent == <<>>

\* x || d : an absent or zero x is falsy
OrDefault(x, d) == IF x = Absent \/ x[1] = 0 THEN d ELSE x[1]

Constructor(o) ==
    [timeout |-> OrDefault(o.timeout, DefaultTimeout),
     retries |-> OrDefault(o.retries, DefaultRetries),
     retryDelay |-> OrDefault(o.retryDelay, DefaultRetryDelay)]

OptionsArguments ==
    [timeout : {Absent, <<7>>},
     retries : {Absent} \cup {<<n>> : n \in -1..MaxRetries},
     retryDelay : {Absent, <<-1>>, <<0>>, <<5>>}]

(* ----------------------------- makeRpcCall ----------------------------- *)
SendEvent == [ev |-> "send", message |-> "", ms |-> 0]
RejectEvent(m) == [ev |-> "reject", message |-> m, ms |-> 0]
DelayEvent(ms) == [ev |-> "delay", message |-> "", ms |-> ms]
ResolveEvent == [ev |-> "resolve", message |-> "", ms |-> 0]
ThrowEvent == [ev |-> "throw", message |-> "", ms |-> 0]

NoError == [attempts |-> 0, message |-> ""]

\* new Error(`RPC call failed after ${this.options.retries} attempts: ${lastError.message}`)
TerminalFailure(lastError) == [attempts |-> options.retries, message |-> lastError]

NotCalled == [status |-> "none", payload |-> "", txs |-> <<>>, fields |-> <<>>, error |-> NoError]
Pending == [status |-> "pending", payload |-> "", txs |-> <<>>, fields |-> <<>>, error |-> NoError]
Returned(payload, txs) ==
    [status |-> "returned", payload |-> payload, txs |-> txs, fields |-> <<>>, error |-> NoError]

\* a returned object literal of named fields
ReturnedRecord(fields) ==
    [status |-> "returned", payload |-> "", txs |-> <<>>, fields |-> fields, error |-> NoError]
Thrown(error) == [status |-> "thrown", payload |-> "", txs |-> <<>>, fields |-> <<>>, error |-> error]

RaiseCaughtByHasCode(o, error) ==
    IF o \in {"isContract", "hasCode"} THEN Returned("false", <<>>) ELSE Thrown(error)

\* what operation o makes of the Error makeRpcCall throws: isContract
\* catches it and returns false, every other operation lets it through
Raise(o, error) == IF o = "isContract" THEN Returned("false", <<>>) ELSE Thrown(error)

\* entry of makeRpcCall up to its first suspension: with retries >= 1 the
\* first provider.send is in flight, otherwise the loop body never runs and
\* the call throws at once
CanAttemptInclusive(attempt) == attempt <= options.retries

CanAttempt(attempt) == attempt < options.retries

EnterRpcSharedBudget ==
    IF CanAttempt(rpc.attempt)
    THEN [pc |-> "send", attempt |-> rpc.attempt, lastError |-> rpc.lastError]
    ELSE [pc |-> "thrown", attempt |-> rpc.attempt, lastError |-> rpc.lastError]

EnterRpc ==
    IF CanAttempt(0)
    THEN [pc |-> "send", attempt |-> 0, lastError |-> UnknownError]
    ELSE [pc |-> "thrown", attempt |-> 0, lastError |-> UnknownError]

EnterLog == IF CanAttempt(0) THEN <<SendEvent>> ELSE <<ThrowEvent>>

EnterOutcome == IF CanAttempt(0) THEN Pending ELSE Thrown(TerminalFailure(UnknownError))

\* a client of the model is given one public operation
Idle == op = "none"

\* provider.send is awaited; "overdue" once options.timeout milliseconds
\* have passed since it was called
InFlight == rpc.pc \in {"send", "overdue"}

Count(ev) == Cardinality({i \in 1..Len(log) : log[i].ev = ev})

(* --------------------- block parameters and records -------------------- *)
Num(n) == [type |-> "number", num |-> n, str |-> <<>>]
Str(s) == [type |-> "string", num |-> 0, str |-> s]

Earliest == <<"e", "a", "r", "l", "i", "e", "s", "t">>
Latest == <<"l", "a", "t", "e", "s", "t">>

\* typeof b === 'number' ? `0x${b.toString(16)}` : b
BlockParam(b) == IF b.type = "number" THEN Hex(b.num) ELSE b.str

Request(method, block, page, size) ==
    [method |-> method, block |-> block, page |-> page, size |-> size]

\* a TransactionDetails as far as the client reads it
TxRecord(h, b) == [hash |-> h, blockNumber |-> Hex(b)]

Last(s) == s[Len(s)]

(* ------------------------------ the server ----------------------------- *)
\* An address history is the blocks of its records, newest first; the record
\* with hash i is in block history[i].
Histories ==
    UNION {{h \in [1..n -> 0..MaxBlock] : \A i \in 1..n - 1 : h[i] >= h[i + 1]} : n \in 0..MaxTxs}

IsStrictHex(s) ==
    /\ Len(s) >= 3 /\ s[1] = "0" /\ s[2] = "x"
    /\ \A i \in 3..Len(s) : IsHexDigit(s[i])

\* a cursor the server accepts: 'latest' or 0x and hex digits
ValidCursor(c) == c = Latest \/ IsStrictHex(c)

\* the exclusive upper bound a cursor stands for; 'latest' is above every record
CursorBound(c) == IF c = Latest THEN MaxBlock + 1 ELSE ParseInt16(c).val

Below(history, c) == {i \in DOMAIN history : history[i] < CursorBound(c)}

RECURSIVE SeqOfSet(_)
SeqOfSet(S) ==
    IF S = {} THEN <<>>
    ELSE LET i == CHOOSE x \in S : \A y \in S : x <= y
         IN  <<i>> \o SeqOfSet(S \ {i})

\* the newest size records below the cursor, newest first, never splitting
\* a block between two pages
NewestBelow(history, c, size) ==
    LET below == SeqOfSet(Below(history, c))
        n == IF Len(below) <= size THEN Len(below) ELSE size
        cut == IF n = 0 THEN {} ELSE {i \in 1..Len(below) : history[below[i]] >= history[below[n]]}
    IN  [i \in 1..Cardinality(cut) |-> below[i]]

Distinct(s) == \A i, j \in DOMAIN s : i # j => s[i] # s[j]

AddressPage(history, ids, first, c) ==
    [txs |-> [i \in DOMAIN ids |-> TxRecord(ids[i], history[ids[i]])],
     firstPage |-> first,
     lastPage |-> \A i \in DOMAIN history : history[i] < CursorBound(c)]

\* the pages a server may answer a searchTransactionsBefore request with.
\* "newest": the newest records below the cursor, descending; firstPage only
\* when nothing older is left.  "below": any records below the cursor in any
\* order, any firstPage.
AddressPages(server, history, c, size) ==
    IF server = "newest"
    THEN LET ids == NewestBelow(history, c, size)
             exhausted == Len(ids) = Cardinality(Below(history, c))
         IN  {AddressPage(history, ids, f, c) : f \in {exhausted, FALSE}}
    ELSE LET choices == UNION {{s \in [1..n -> Below(history, c)] : Distinct(s)} : n \in 0..size}
         IN  {AddressPage(history, ids, f, c) : ids \in choices, f \in BOOLEAN}

\* the records of pages already served
RECURSIVE Served(_)
Served(ps) == IF ps = <<>> THEN 0 ELSE Len(ps[1].txs) + Served(Tail(ps))

\* the pages a server may answer a getBlockTransactions request with: the
\* next records of the block, at least one while any is left; lastPage with
\* the last record at the latest
BlockPages(block, blockNumber, pageNumber, served) ==
    LET left == Len(block) - served
        page(k, l) ==
            [txs |-> [i \in 1..k |-> [hash |-> block[served + i], blockNumber |-> blockNumber]],
             firstPage |-> pageNumber = 0,
             lastPage |-> l]
    IN  UNION {{page(k, l) : l \in {TRUE, k = left}} : k \in (IF left = 0 THEN {0} ELSE 1..left)}

\* the transactions of a block, in block order
Blocks == UNION {{b \in [1..n -> 1..MaxTxs] : Distinct(b)} : n \in 0..MaxTxs}

EmptyChain == [server |-> "newest", history |-> <<>>, block |-> <<>>]

Chains ==
    {[server |-> s, history |-> h, block |-> <<>>] : s \in {"newest", "below"}, h \in Histories}
        \cup {[server |-> "newest", history |-> <<>>, block |-> b] : b \in Blocks}

(* -------------------- getAllTransactionsForAddress --------------------- *)
NoBack ==
    [fromBlock |-> Str(Earliest), toBlock |-> Str(Latest), pageSize |-> 0,
     allTransactions |-> <<>>, currentBlock |-> <<>>, hasMore |-> FALSE]

NoFwd ==
    [blockNumber |-> Num(0), blockDetails |-> "", allTransactions |-> <<>>, pageNumber |-> 0,
     hasMore |-> FALSE]

\* fromBlock === 'earliest' ? 0 : typeof fromBlock === 'number' ? fromBlock : parseInt(fromBlock, 16)
FromBlockNum(fromBlock) ==
    IF fromBlock.type = "string" /\ fromBlock.str = Earliest THEN Number(0)
    ELSE IF fromBlock.type = "number" THEN Number(fromBlock.num)
    ELSE ParseInt16(fromBlock.str)

\* a comparison with NaN is false
AtLeast(x, y) == ~x.nan /\ ~y.nan /\ x.val >= y.val

InRange(tx, fromBlock) == AtLeast(ParseInt16(tx.blockNumber), FromBlockNum(fromBlock))

FilterPageKeepsAll(txs, fromBlock) == txs

FilterPage(txs, fromBlock) == SelectSeq(txs, LAMBDA tx : InRange(tx, fromBlock))

CompareBlocksDescending(a, b) ==
    LET x == ParseInt16(a.blockNumber)
        y == ParseInt16(b.blockNumber)
    IN  IF x.nan \/ y.nan THEN 0 ELSE y.val - x.val

\* the comparator of the final sort; a NaN difference counts as 0
CompareBlocks(a, b) ==
    LET x == ParseInt16(a.blockNumber)
        y == ParseInt16(b.blockNumber)
    IN  IF x.nan \/ y.nan THEN 0 ELSE x.val - y.val

RECURSIVE InsertSorted(_, _)
InsertSorted(s, e) ==
    IF s = <<>> THEN <<e>>
    ELSE IF CompareBlocks(Head(s), e) > 0 THEN <<e>> \o s
    ELSE <<Head(s)>> \o InsertSorted(Tail(s), e)

\* Array.prototype.sort with CompareBlocks: ascending and stable
RECURSIVE SortByBlock(_)
SortByBlock(s) ==
    IF s = <<>> THEN <<>>
    ELSE InsertSorted(SortByBlock(SubSeq(s, 1, Len(s) - 1)), Last(s))

NextCursorBlockAfter(txs) ==
    LET earliestBlockNum == ParseInt16(Last(txs).blockNumber)
    IN  IF earliestBlockNum.nan THEN <<"0", "x", "N", "a", "N">>
        ELSE Hex(earliestBlockNum.val + 1)

\* `0x${(earliestBlockNum - 1).toString(16)}` for the last record of the page
NextCursor(txs) ==
    LET earliestBlockNum == ParseInt16(Last(txs).blockNumber)
    IN  IF earliestBlockNum.nan THEN <<"0", "x", "N", "a", "N">>
        ELSE Hex(earliestBlockNum.val - 1)

StopsAfterEmptyFilter(page, filteredTxs) == page.firstPage \/ Len(filteredTxs) = 0

StopsAfterIgnoresFirstPage(page, filteredTxs) == Len(filteredTxs) < Len(page.txs)

\* the loop's stop test after a non-empty page
StopsAfter(page, filteredTxs) == page.firstPage \/ Len(filteredTxs) < Len(page.txs)

BackwardStepAsksAgain(b, page) ==
    IF Len(page.txs) = 0 THEN [b EXCEPT !.hasMore = ~page.firstPage]
    ELSE LET filteredTxs == FilterPage(page.txs, b.fromBlock)
             all == b.allTransactions \o filteredTxs
         IN  IF StopsAfter(page, filteredTxs)
             THEN [b EXCEPT !.allTransactions = all, !.hasMore = FALSE]
             ELSE [b EXCEPT !.allTransactions = all, !.currentBlock = NextCursor(page.txs)]

\* one pass of the while loop of getAllTransactionsForAddress over a page
BackwardStep(b, page) ==
    IF Len(page.txs) = 0 THEN [b EXCEPT !.hasMore = FALSE]
    ELSE LET filteredTxs == FilterPage(page.txs, b.fromBlock)
             all == b.allTransactions \o filteredTxs
         IN  IF StopsAfter(page, filteredTxs)
             THEN [b EXCEPT !.allTransactions = all, !.hasMore = FALSE]
             ELSE [b EXCEPT !.allTransactions = all, !.currentBlock = NextCursor(page.txs)]

ForwardStepDropsLast(f, page) ==
    [f EXCEPT !.allTransactions = IF page.lastPage THEN @ ELSE @ \o page.txs,
              !.hasMore = ~page.lastPage,
              !.pageNumber = IF page.lastPage THEN @ ELSE @ + 1]

ForwardStepSamePage(f, page) ==
    [f EXCEPT !.allTransactions = @ \o page.txs,
              !.hasMore = ~page.lastPage]

\* one pass of the while loop of getBlockWithTransactions over a page
ForwardStep(f, page) ==
    [f EXCEPT !.allTransactions = @ \o page.txs,
              !.hasMore = ~page.lastPage,
              !.pageNumber = IF page.lastPage THEN @ ELSE @ + 1]

SearchRequest(cursor, size) == Request("ots_searchTransactionsBefore", cursor, 0, size)

BlockRequest(method, blockNumber, pageNumber, size) ==
    Request(method, BlockParam(blockNumber), pageNumber, size)

(* ------------------------------ actions -------------------------------- *)
\* The clients and chains explored: every options argument against an empty
\* chain, and every chain against the clients given retries alone; the
\* server that answers in any order is explored under retries = 1.
OnlyRetries(n) == [timeout |-> Absent, retries |-> <<n>>, retryDelay |-> Absent]

Scenarios ==
    {[supplied |-> o, chain |-> EmptyChain] : o \in OptionsArguments}
        \cup {[supplied |-> OnlyRetries(n), chain |-> c] :
                n \in 1..MaxRetries, c \in {x \in Chains : x.server = "newest"}}
        \cup {[supplied |-> OnlyRetries(1), chain |-> c] : c \in Chains}

Init ==
    /\ \E s \in Scenarios : supplied = s.supplied /\ chain = s.chain
    /\ options = Constructor(supplied)
    /\ op = "none"
    /\ outcome = NotCalled
    /\ rpc = [pc |-> "idle", attempt |-> 0, lastError |-> UnknownError]
    /\ log = <<>>
    /\ back = NoBack
    /\ fwd = NoFwd
    /\ requests = <<>>
    /\ pages = <<>>
    /\ subs = <<>>

\* a public operation that is one makeRpcCall: getApiLevel()
GetApiLevel ==
    /\ Idle
    /\ op' = "getApiLevel"
    /\ rpc' = EnterRpc
    /\ log' = EnterLog
    /\ outcome' = EnterOutcome
    /\ requests' = <<Request("ots_getApiLevel", <<>>, 0, 0)>>
    /\ pages' = <<>>
    /\ back' = NoBack
    /\ fwd' = NoFwd
    /\ UNCHANGED <<supplied, options, chain, subs>>

GetAllTransactionsForAddressAhead ==
    /\ Idle
    /\ \E toBlock \in {Str(Latest)} \cup {Num(n) : n \in 0..MaxBlock}, pageSize \in 1..MaxPageSize :
            /\ back' = [fromBlock |-> Str(Earliest), toBlock |-> toBlock, pageSize |-> pageSize,
                        allTransactions |-> <<>>, currentBlock |-> BlockParam(toBlock),
                        hasMore |-> TRUE]
            /\ requests' = <<SearchRequest(BlockParam(toBlock), pageSize),
                             SearchRequest(BlockParam(toBlock), pageSize)>>
    /\ op' = "getAllTransactionsForAddress"
    /\ rpc' = EnterRpc
    /\ log' = EnterLog
    /\ outcome' = EnterOutcome
    /\ pages' = <<>>
    /\ fwd' = NoFwd
    /\ UNCHANGED <<supplied, options, chain, subs>>

\* the public operations that are one makeRpcCall each, and the method they
\* call; isContract is hasCode inside a try block.  Their arguments are
\* handed on to the provider and are left out.
MethodOf ==
    [getInternalOperations |-> "ots_getInternalOperations",
     hasCode |-> "ots_hasCode",
     isContract |-> "ots_hasCode",
     traceTransaction |-> "ots_traceTransaction",
     getTransactionError |-> "ots_getTransactionError",
     getBlockDetails |-> "ots_getBlockDetails",
     getBlockTransactions |-> "ots_getBlockTransactions",
     searchTransactionsBefore |-> "ots_searchTransactionsBefore",
     searchTransactionsAfter |-> "ots_searchTransactionsAfter",
     getTransactionBySenderAndNonce |-> "ots_getTransactionBySenderAndNonce",
     getContractCreator |-> "ots_getContractCreator"]

\* one of these operations up to the await of makeRpcCall
Call ==
    /\ Idle
    /\ \E o \in DOMAIN MethodOf :
            /\ op' = o
            /\ requests' = <<Request(MethodOf[o], <<>>, 0, 0)>>
            /\ outcome' = IF CanAttempt(0) THEN Pending ELSE Raise(o, TerminalFailure(UnknownError))
    /\ rpc' = EnterRpc
    /\ log' = EnterLog
    /\ pages' = <<>>
    /\ back' = NoBack
    /\ fwd' = NoFwd
    /\ UNCHANGED <<supplied, options, chain, subs>>

\* getAllTransactionsForAddress(address, fromBlock, toBlock, pageSize) up to
\* the first await
GetAllTransactionsForAddress ==
    /\ Idle
    /\ \E fromBlock \in {Str(Earliest)} \cup {Num(n) : n \in 0..MaxBlock},
          toBlock \in {Str(Latest)} \cup {Num(n) : n \in 0..MaxBlock},
          pageSize \in 1..MaxPageSize :
            /\ back' = [fromBlock |-> fromBlock, toBlock |-> toBlock, pageSize |-> pageSize,
                        allTransactions |-> <<>>, currentBlock |-> BlockParam(toBlock),
                        hasMore |-> TRUE]
            /\ requests' = <<SearchRequest(BlockParam(toBlock), pageSize)>>
    /\ op' = "getAllTransactionsForAddress"
    /\ rpc' = EnterRpc
    /\ log' = EnterLog
    /\ outcome' = EnterOutcome
    /\ pages' = <<>>
    /\ fwd' = NoFwd
    /\ UNCHANGED <<supplied, options, chain, subs>>

\* getBlockWithTransactions(blockNumber) up to the await of getBlockDetails
GetBlockWithTransactions ==
    /\ Idle
    /\ \E n \in 0..MaxBlock :
            /\ fwd' = [blockNumber |-> Num(n), blockDetails |-> "", allTransactions |-> <<>>,
                       pageNumber |-> 0, hasMore |-> FALSE]
            /\ requests' = <<BlockRequest("ots_getBlockDetails", Num(n), 0, 0)>>
    /\ op' = "getBlockWithTransactions"
    /\ rpc' = EnterRpc
    /\ log' = EnterLog
    /\ outcome' = EnterOutcome
    /\ pages' = <<>>
    /\ back' = NoBack
    /\ UNCHANGED <<supplied, options, chain, subs>>

NextAttemptKeepsPartial(lastError, events) ==
    IF CanAttempt(rpc.attempt + 1)
    THEN /\ rpc' = [pc |-> "send", attempt |-> rpc.attempt + 1, lastError |-> lastError]
         /\ log' = events \o <<SendEvent>>
         /\ outcome' = outcome
    ELSE /\ rpc' = [pc |-> "thrown", attempt |-> rpc.attempt + 1, lastError |-> lastError]
         /\ log' = events \o <<ThrowEvent>>
         /\ outcome' = Returned("", back.allTransactions \o fwd.allTransactions)

\* the loop of makeRpcCall from attempt++ to the next suspension or the throw
NextAttempt(lastError, events) ==
    IF CanAttempt(rpc.attempt + 1)
    THEN /\ rpc' = [pc |-> "send", attempt |-> rpc.attempt + 1, lastError |-> lastError]
         /\ log' = events \o <<SendEvent>>
         /\ outcome' = outcome
    ELSE /\ rpc' = [pc |-> "thrown", attempt |-> rpc.attempt + 1, lastError |-> lastError]
         /\ log' = events \o <<ThrowEvent>>
         /\ outcome' = Raise(op, TerminalFailure(lastError))

CaughtFirst(lastError, m) == IF lastError = UnknownError THEN m ELSE lastError

\* lastError = error
Caught(lastError, m) == m

DelaysAfterEvery(attempt) == attempt < options.retries

\* the last try block's delay is skipped: attempt < this.options.retries - 1
DelaysAfter(attempt) == attempt < options.retries - 1

\* provider.send rejects with message m: the catch block of makeRpcCall
SendRejected ==
    /\ InFlight
    /\ \E m \in Messages :
            IF DelaysAfter(rpc.attempt)
            THEN /\ rpc' = [rpc EXCEPT !.pc = "delay", !.lastError = Caught(rpc.lastError, m)]
                 /\ log' = log \o <<RejectEvent(m), DelayEvent(options.retryDelay)>>
                 /\ outcome' = outcome
            ELSE NextAttempt(Caught(rpc.lastError, m), log \o <<RejectEvent(m)>>)
    /\ UNCHANGED <<supplied, options, chain, subs, op, back, fwd, requests, pages>>

\* options.timeout milliseconds pass while provider.send is awaited: no
\* timer was armed for the attempt, the await goes on
TimeoutPassed ==
    /\ rpc.pc = "send"
    /\ rpc' = [rpc EXCEPT !.pc = "overdue"]
    /\ UNCHANGED <<supplied, options, chain, subs, op, outcome, log, back, fwd, requests, pages>>

\* the retry timer fires
DelayElapsed ==
    /\ rpc.pc = "delay"
    /\ NextAttempt(rpc.lastError, log)
    /\ UNCHANGED <<supplied, options, chain, subs, op, back, fwd, requests, pages>>

ApiLevelResolvedNoReturn ==
    /\ InFlight
    /\ op = "getApiLevel"
    /\ NextAttempt(rpc.lastError, log \o <<ResolveEvent>>)
    /\ UNCHANGED <<supplied, options, chain, subs, op, back, fwd, requests, pages>>

\* provider.send resolves for getApiLevel: makeRpcCall returns the result
ApiLevelResolved ==
    /\ InFlight
    /\ op = "getApiLevel"
    /\ rpc' = [rpc EXCEPT !.pc = "returned"]
    /\ log' = log \o <<ResolveEvent>>
    /\ outcome' = Returned("apiLevel", <<>>)
    /\ UNCHANGED <<supplied, options, chain, subs, op, back, fwd, requests, pages>>

\* provider.send resolves for one of the operations of MethodOf: the result
\* is returned as it is
CallResolved ==
    /\ InFlight
    /\ op \in DOMAIN MethodOf
    /\ rpc' = [rpc EXCEPT !.pc = "returned"]
    /\ log' = log \o <<ResolveEvent>>
    /\ \E result \in (IF MethodOf[op] = "ots_hasCode" THEN {"true", "false"} ELSE {"result"}) :
            outcome' = Returned(result, <<>>)
    /\ UNCHANGED <<supplied, options, chain, subs, op, back, fwd, requests, pages>>

\* provider.send resolves with a page for searchTransactionsBefore: the body
\* of the while loop, then either the next request or the sort and return
AddressPageResolved ==
    /\ InFlight
    /\ op = "getAllTransactionsForAddress"
    /\ ValidCursor(Last(requests).block)
    /\ \E page \in AddressPages(chain.server, chain.history, Last(requests).block, Last(requests).size) :
          LET b == BackwardStep(back, page)
          IN  /\ pages' = Append(pages, page)
              /\ IF b.hasMore
                 THEN /\ back' = b
                      /\ requests' = Append(requests, SearchRequest(b.currentBlock, b.pageSize))
                      /\ rpc' = EnterRpc
                      /\ log' = EnterLog
                      /\ outcome' = EnterOutcome
                 ELSE /\ back' = [b EXCEPT !.allTransactions = SortByBlock(b.allTransactions)]
                      /\ requests' = requests
                      /\ rpc' = [rpc EXCEPT !.pc = "returned"]
                      /\ log' = log \o <<ResolveEvent>>
                      /\ outcome' = Returned("", SortByBlock(b.allTransactions))
    /\ UNCHANGED <<supplied, options, chain, subs, op, fwd>>

\* provider.send resolves for getBlockDetails: the first page is requested
BlockDetailsResolved ==
    /\ InFlight
    /\ op = "getBlockWithTransactions"
    /\ Last(requests).method = "ots_getBlockDetails"
    /\ fwd' = [fwd EXCEPT !.blockDetails = "blockDetails", !.hasMore = TRUE]
    /\ requests' = Append(requests,
            BlockRequest("ots_getBlockTransactions", fwd.blockNumber, fwd.pageNumber, BlockPageSize))
    /\ rpc' = EnterRpc
    /\ log' = EnterLog
    /\ outcome' = EnterOutcome
    /\ UNCHANGED <<supplied, options, chain, subs, op, back, pages>>

\* provider.send resolves with a page for getBlockTransactions
BlockPageResolved ==
    /\ InFlight
    /\ op = "getBlockWithTransactions"
    /\ Last(requests).method = "ots_getBlockTransactions"
    /\ \E page \in BlockPages(chain.block, Last(requests).block, Last(requests).page, Served(pages)) :
          LET f == ForwardStep(fwd, page)
          IN  /\ pages' = Append(pages, page)
              /\ fwd' = f
              /\ IF f.hasMore
                 THEN /\ requests' = Append(requests,
                            BlockRequest("ots_getBlockTransactions", f.blockNumber, f.pageNumber,
                                         BlockPageSize))
                      /\ rpc' = EnterRpc
                      /\ log' = EnterLog
                      /\ outcome' = EnterOutcome
                 ELSE /\ requests' = requests
                      /\ rpc' = [rpc EXCEPT !.pc = "returned"]
                      /\ log' = log \o <<ResolveEvent>>
                      /\ outcome' = Returned(f.blockDetails, f.allTransactions)
    /\ UNCHANGED <<supplied, options, chain, subs, op, back>>

(* ----------- getTransactionAnalysis and getContractDeployment ---------- *)
Null == "null"
EmptyList == "[]"

\* the frame of a makeRpcCall issued by a composite operation, up to its
\* first suspension
SubEnter(method) ==
    [method |-> method, retry |-> TRUE, pc |-> IF CanAttempt(0) THEN "send" ELSE "rejected",
     attempt |-> 0, lastError |-> UnknownError]

\* this.provider.getTransaction(hash): a call of the provider itself, outside
\* makeRpcCall
DirectEnter(method) ==
    [method |-> method, retry |-> FALSE, pc |-> "send", attempt |-> 0, lastError |-> UnknownError]

\* a settled call leaves its promise behind: fulfilled, or rejected with the
\* failure that carries lastError
SubFulfilled(f) == [f EXCEPT !.pc = "fulfilled", !.attempt = 0, !.lastError = UnknownError]
SubFailed(f, lastError) == [f EXCEPT !.pc = "rejected", !.attempt = 0, !.lastError = lastError]

\* the loop of makeRpcCall from attempt++ to the next suspension or the throw
SubNextAttempt(f, lastError) ==
    IF CanAttempt(f.attempt + 1)
    THEN [f EXCEPT !.pc = "send", !.attempt = f.attempt + 1, !.lastError = lastError]
    ELSE SubFailed(f, lastError)

\* the catch block of makeRpcCall; a call of the provider itself just rejects
SubCatch(f, m) ==
    IF ~f.retry THEN SubFailed(f, m)
    ELSE IF DelaysAfter(f.attempt)
         THEN [f EXCEPT !.pc = "delay", !.lastError = Caught(f.lastError, m)]
         ELSE SubNextAttempt(f, Caught(f.lastError, m))

Settled(f) == f.pc \in {"fulfilled", "rejected"}

AllSettled(s) == \A i \in DOMAIN s : Settled(s[i])

FieldSharedFate(s, i, value, default) ==
    IF \A j \in DOMAIN s : s[j].pc # "rejected" THEN value ELSE default

\* x.status === 'fulfilled' ? x.value : default
Field(s, i, value, default) == IF s[i].pc = "fulfilled" THEN value ELSE default

\* { trace, internalOps, error } of getTransactionAnalysis; the third read
\* has a catch handler that turns its failure into null
AnalysisRecord(s) ==
    <<Field(s, 1, "trace", Null), Field(s, 2, "internalOps", EmptyList), Field(s, 3, "errorData", Null)>>

\* { creator, transaction, trace } of getContractDeployment
DeploymentRecord(s) ==
    <<"creator", Field(s, 2, "transaction", Null), Field(s, 3, "trace", Null)>>

RequestsOf(s) == [i \in DOMAIN s |-> Request(s[i].method, <<>>, 0, 0)]

ResumeEagerly(o, s) ==
    IF o = "getContractDeployment" /\ Len(s) = 1
    THEN s \o <<DirectEnter("eth_getTransactionByHash"), SubEnter("ots_traceTransaction")>>
    ELSE s

\* getContractDeployment resumes once getContractCreator has returned: the
\* transaction and the trace are asked for, both before the joint await
Resume(o, s) ==
    IF o = "getContractDeployment" /\ Len(s) = 1 /\ s[1].pc = "fulfilled"
    THEN s \o <<DirectEnter("eth_getTransactionByHash"), SubEnter("ots_traceTransaction")>>
    ELSE s

JoinedBestEffort(o, s) ==
    IF o = "getContractDeployment" /\ s[1].pc = "rejected"
    THEN ReturnedRecord(<<Null, Null, Null>>)
    ELSE IF ~AllSettled(s) THEN Pending
    ELSE IF o = "getContractDeployment" THEN ReturnedRecord(DeploymentRecord(s))
    ELSE ReturnedRecord(AnalysisRecord(s))

\* how the composite operation stands with the calls s: a failed
\* getContractCreator is thrown on, Promise.allSettled waits for every call
Joined(o, s) ==
    IF o = "getContractDeployment" /\ s[1].pc = "rejected"
    THEN Thrown(TerminalFailure(s[1].lastError))
    ELSE IF ~AllSettled(s) THEN Pending
    ELSE IF o = "getContractDeployment" THEN ReturnedRecord(DeploymentRecord(s))
    ELSE ReturnedRecord(AnalysisRecord(s))

\* getTransactionAnalysis(txHash) up to the await of Promise.allSettled
GetTransactionAnalysis ==
    /\ Idle
    /\ op' = "getTransactionAnalysis"
    /\ subs' = <<SubEnter("ots_traceTransaction"), SubEnter("ots_getInternalOperations"),
                 SubEnter("ots_getTransactionError")>>
    /\ requests' = RequestsOf(subs')
    /\ outcome' = Joined("getTransactionAnalysis", subs')
    /\ UNCHANGED <<supplied, options, chain, rpc, log, back, fwd, pages>>

\* getContractDeployment(contractAddress) up to the await of getContractCreator
GetContractDeployment ==
    /\ Idle
    /\ op' = "getContractDeployment"
    /\ subs' = <<SubEnter("ots_getContractCreator")>>
    /\ requests' = RequestsOf(subs')
    /\ outcome' = Joined("getContractDeployment", subs')
    /\ UNCHANGED <<supplied, options, chain, rpc, log, back, fwd, pages>>

\* one call of a composite operation moves to frame f; the operation runs on
\* if that was what it awaited
SubStep(i, f) ==
    /\ subs' = Resume(op, [subs EXCEPT ![i] = f])
    /\ requests' = RequestsOf(subs')
    /\ outcome' = Joined(op, subs')
    /\ UNCHANGED <<supplied, options, chain, op, rpc, log, back, fwd, pages>>

\* the provider rejects a call of a composite operation with message m
SubRejected ==
    \E i \in DOMAIN subs, m \in Messages :
        /\ subs[i].pc = "send"
        /\ SubStep(i, SubCatch(subs[i], m))

\* the retry timer of a call of a composite operation fires
SubDelayElapsed ==
    \E i \in DOMAIN subs :
        /\ subs[i].pc = "delay"
        /\ SubStep(i, SubNextAttempt(subs[i], subs[i].lastError))

\* the provider answers a call of a composite operation
SubResolved ==
    \E i \in DOMAIN subs :
        /\ subs[i].pc = "send"
        /\ SubStep(i, SubFulfilled(subs[i]))

Next ==
    \/ GetApiLevel
    \/ GetAllTransactionsForAddress
    \/ GetBlockWithTransactions
    \/ SendRejected
    \/ TimeoutPassed
    \/ DelayElapsed
    \/ ApiLevelResolved
    \/ AddressPageResolved
    \/ BlockDetailsResolved
    \/ BlockPageResolved
    \/ Call
    \/ CallResolved
    \/ GetTransactionAnalysis
    \/ GetContractDeployment
    \/ SubRejected
    \/ SubDelayElapsed
    \/ SubResolved

Spec == Init /\ [][Next]_vars

(* ======================= properties of makeRpcCall ===================== *)
Ended == rpc.pc \in {"returned", "thrown"}

Positions(ev) == {i \in 1..Len(log) : log[i].ev = ev}

\* the message the transport rejected the latest attempt with
LastRejection == log[CHOOSE i \in Positions("reject") : \A j \in Positions("reject") : j <= i].message

\* C1 (retry bound): with retries = N >= 1 a call never invokes the transport
\* more than N times; it throws only once all N invocations were rejected,
\* it throws once, and the throw is the last thing the call does.
C1_RetryBound ==
    options.retries >= 1 =>
        /\ Count("send") <= options.retries
        /\ Count("throw") <= 1
        /\ rpc.pc = "thrown" <=> Count("throw") = 1
        /\ rpc.pc = "thrown" =>
              /\ Count("send") = options.retries
              /\ Count("reject") = options.retries
              /\ Last(log).ev = "throw"
              /\ outcome = Raise(op, outcome.error)

C1_Witness ==
    /\ rpc.pc = "thrown"
    /\ options.retries >= 2
    /\ Count("send") = options.retries

\* C8 (success short-circuit): a resolved attempt is the last event of its
\* call, the call has returned, and when it resolved on attempt k it had
\* invoked the transport k times after k - 1 rejections.
C8_SuccessShortCircuit ==
    /\ \A i \in Positions("resolve") : i = Len(log) /\ rpc.pc = "returned"
    /\ rpc.pc = "returned" =>
          /\ Last(log).ev = "resolve"
          /\ Count("send") = Count("reject") + 1
          /\ Count("send") = rpc.attempt + 1
          /\ Count("send") <= options.retries
          /\ outcome.status = "returned"

C8_Witness ==
    /\ rpc.pc = "returned"
    /\ Count("send") = 2
    /\ options.retries = 3

\* C9 (no wasted delay): every delay is followed by a transport invocation,
\* or is still running with an attempt left to make; a call that ended after
\* k attempts waited k - 1 delays.
C9_NoWastedDelay ==
    /\ \A i \in Positions("delay") :
          \/ i < Len(log) /\ log[i + 1].ev = "send"
          \/ i = Len(log) /\ rpc.pc = "delay" /\ rpc.attempt + 1 < options.retries
    /\ Ended /\ Count("send") >= 1 => Count("delay") = Count("send") - 1

C9_Witness ==
    /\ rpc.pc = "thrown"
    /\ Count("send") = 3
    /\ Count("delay") = 2

\* C10 (terminal failure content): the failure thrown after at least one
\* attempt carries the number of attempts made and the message of the last
\* rejection.
C10_TerminalFailureContent ==
    outcome.status = "thrown" /\ Count("send") >= 1 =>
        /\ outcome.error.attempts = Count("send")
        /\ outcome.error.message = LastRejection

C10_Witness ==
    /\ outcome.status = "thrown"
    /\ Count("reject") >= 2
    /\ log[2].message # LastRejection

(* ================= properties of the backward traversal ================ *)
Backward == op = "getAllTransactionsForAddress"

\* the caller's inclusive range, 'earliest' read as 0 and 'latest' as no
\* upper limit
LowerBound == IF back.fromBlock.type = "number" THEN back.fromBlock.num ELSE 0

WithinUpper(n) == back.toBlock.type = "number" => n <= back.toBlock.num

\* the block the server holds the record in
BlockOf(tx) == chain.history[tx.hash]

InCallerRange(n) == LowerBound <= n /\ WithinUpper(n)

Elements(s) == {s[i] : i \in DOMAIN s}

\* C2 (backward completeness), as claimed: a traversal that returns against
\* a server answering with the newest records below the cursor, in
\* descending order, holds every record of the history in [fromBlock, toBlock].
C2_BackwardComplete ==
    Backward /\ chain.server = "newest" /\ outcome.status = "returned" =>
        \A h \in DOMAIN chain.history :
            InCallerRange(chain.history[h]) =>
                TxRecord(h, chain.history[h]) \in Elements(outcome.txs)

\* C3 (range invariant): whatever the server answers below the cursor, every
\* record accumulated so far and every record returned is within
\* [fromBlock, toBlock].
C3_RangeInvariant ==
    Backward =>
        /\ \A tx \in Elements(back.allTransactions) : InCallerRange(BlockOf(tx))
        /\ \A tx \in Elements(outcome.txs) : InCallerRange(BlockOf(tx))

C3_Witness ==
    /\ Backward
    /\ outcome.status = "pending"
    /\ back.allTransactions # <<>>
    /\ LowerBound > 0
    /\ back.toBlock.type = "number"
    /\ \E i \in DOMAIN chain.history : chain.history[i] < LowerBound

\* C4 (ordering): against a server whose pages are descending, the returned
\* aggregate is ascending by block number, holds no record twice, and no
\* record came in two pages.
C4_SortedNoDuplicates ==
    Backward /\ chain.server = "newest" /\ outcome.status = "returned" =>
        /\ \A i, j \in DOMAIN outcome.txs :
              i < j => BlockOf(outcome.txs[i]) <= BlockOf(outcome.txs[j])
        /\ Distinct(outcome.txs)
        /\ \A i, j \in DOMAIN pages :
              i # j => Elements(pages[i].txs) \cap Elements(pages[j].txs) = {}

C4_Witness ==
    /\ Backward
    /\ chain.server = "newest"
    /\ outcome.status = "returned"
    /\ Len(pages) >= 2
    /\ Len(outcome.txs) >= 2
    /\ BlockOf(outcome.txs[1]) < BlockOf(outcome.txs[2])

\* the page holds a record at or above fromBlock and a record below it
Straddles(page) ==
    /\ \E tx \in Elements(page.txs) : BlockOf(tx) >= LowerBound
    /\ \E tx \in Elements(page.txs) : BlockOf(tx) < LowerBound

\* C6 (boundary truncation): once a page straddling fromBlock has been
\* received the traversal has returned, with that page's in-range records,
\* and the request that fetched the page is the last one.
C6_BoundaryTruncation ==
    Backward /\ pages # <<>> /\ Straddles(Last(pages)) =>
        /\ outcome.status = "returned"
        /\ Len(requests) = Len(pages)
        /\ \A tx \in Elements(Last(pages).txs) :
              BlockOf(tx) >= LowerBound => tx \in Elements(outcome.txs)

C6_Witness ==
    /\ Backward
    /\ pages # <<>>
    /\ Straddles(Last(pages))
    /\ ~Last(pages).firstPage
    /\ outcome.status = "returned"

\* C7 (early-empty termination): when the first page is empty the traversal
\* has returned the empty sequence after this one request.
C7_EarlyEmpty ==
    Backward /\ pages # <<>> /\ pages[1].txs = <<>> =>
        /\ outcome.status = "returned"
        /\ outcome.txs = <<>>
        /\ Len(requests) = 1
        /\ Len(pages) = 1

C7_Witness ==
    /\ Backward
    /\ pages # <<>>
    /\ pages[1].txs = <<>>
    /\ ~pages[1].firstPage
    /\ chain.history # <<>>
    /\ back.toBlock = Str(Latest)
    /\ outcome.status = "returned"

(* ================= properties of the forward traversal ================= *)
Forward == op = "getBlockWithTransactions"

RECURSIVE Concatenation(_)
Concatenation(ps) ==
    IF ps = <<>> THEN <<>> ELSE ps[1].txs \o Concatenation(Tail(ps))

PageRequests == {i \in DOMAIN requests : requests[i].method = "ots_getBlockTransactions"}

\* the server has answered N page requests, the Nth and only the Nth with
\* lastPage
AnsweredUpToLastPage ==
    /\ pages # <<>>
    /\ Last(pages).lastPage
    /\ \A i \in 1..Len(pages) - 1 : ~pages[i].lastPage

\* C5 (forward completeness): once the Nth page, the first flagged lastPage,
\* has been received, the operation has returned after exactly N page
\* requests, and its transactions are the pages' records concatenated.
C5_ForwardComplete ==
    Forward /\ AnsweredUpToLastPage =>
        /\ outcome.status = "returned"
        /\ Cardinality(PageRequests) = Len(pages)
        /\ outcome.txs = Concatenation(pages)

C5_Witness ==
    /\ Forward
    /\ AnsweredUpToLastPage
    /\ Len(pages) = 2
    /\ Len(outcome.txs) = 2
    /\ outcome.txs[1].hash > outcome.txs[2].hash

(* ===================== properties of the constructor =================== *)
\* C11 (configuration validation): whatever options the constructor was
\* given, the policy of the client has retries >= 1 and retryDelay >= 0, and
\* a call that has thrown had invoked the transport at least once.
C11_ValidPolicy ==
    /\ options.retries >= 1
    /\ options.retryDelay >= 0
    /\ rpc.pc = "thrown" => Count("send") >= 1

(* ==================== properties of the attempt timeout ================ *)
\* C12 (per-attempt timeout): no attempt is still awaited once the
\* configured timeout has passed since it was sent: by then it has been
\* counted as failed and the call has moved on to its delay, its next
\* attempt or its terminal failure.
C12_AttemptTimeout == rpc.pc # "overdue"

(* ================= properties shared by both traversals ================ *)
Traversal == op \in {"getAllTransactionsForAddress", "getBlockWithTransactions"}

\* the requests of a traversal that ask for a page
Paged == {i \in DOMAIN requests : requests[i].method # "ots_getBlockDetails"}

\* the failure makeRpcCall throws once its attempts are used up
ExhaustedRetries ==
    [attempts |-> options.retries,
     message |-> IF Positions("reject") = {} THEN UnknownError ELSE LastRejection]

\* C13 (traversal abort): when a request of a traversal has used up its
\* attempts, the traversal has thrown that very failure, it returns no
\* record of the pages received before, and the failed request is its last
\* one: every page request but that one was answered.
C13_TraversalAbort ==
    Traversal /\ rpc.pc = "thrown" =>
        /\ outcome.status = "thrown"
        /\ outcome.error = ExhaustedRetries
        /\ outcome.txs = <<>>
        /\ outcome.payload = ""
        /\ Last(log).ev = "throw"
        /\ Cardinality(Paged) \in {Len(pages), Len(pages) + 1}
        /\ Last(requests).method # "ots_getBlockDetails" => Cardinality(Paged) = Len(pages) + 1

C13_Witness ==
    /\ Backward
    /\ rpc.pc = "thrown"
    /\ options.retries >= 2
    /\ back.allTransactions # <<>>
    /\ outcome.txs = <<>>

\* the requests of a traversal the server has answered
Answered == Len(pages) + (IF Forward /\ fwd.blockDetails # "" THEN 1 ELSE 0)

\* C14 (sequential paging): a traversal has at most one request without an
\* answer, and it is the latest one; while that request is being attempted,
\* delayed or retried every earlier request has been answered, and once the
\* traversal has returned none is left.
C14_SequentialPaging ==
    Traversal =>
        /\ Len(requests) \in {Answered, Answered + 1}
        /\ rpc.pc \in {"send", "overdue", "delay", "thrown"} => Len(requests) = Answered + 1
        /\ outcome.status = "returned" => Len(requests) = Answered

C14_Witness ==
    /\ Backward
    /\ Len(requests) = 2
    /\ Len(pages) = 1
    /\ rpc.pc = "delay"
    /\ rpc.attempt = 0

(* ================= properties of the composite operations ============== *)
Analysis == op = "getTransactionAnalysis"

Deployment == op = "getContractDeployment"

\* the call for method m of the composite operation has succeeded
Succeeded(m) == \E i \in DOMAIN subs : subs[i].method = m /\ subs[i].pc = "fulfilled"

\* the call for method m of the composite operation has failed for good
Failed(m) == \E i \in DOMAIN subs : subs[i].method = m /\ subs[i].pc = "rejected"

\* C15 (best-effort transaction analysis): getTransactionAnalysis never
\* throws; once its three reads have each succeeded or failed it has
\* returned, and each field of the record is the value of its own read when
\* that read succeeded and null, the empty list, null when it failed,
\* whatever became of the other two.
C15_BestEffortAnalysis ==
    Analysis =>
        /\ outcome.status # "thrown"
        /\ outcome.status = "returned" <=> AllSettled(subs)
        /\ outcome.status = "returned" =>
              /\ Len(outcome.fields) = 3
              /\ outcome.fields[1] = (IF Succeeded("ots_traceTransaction") THEN "trace" ELSE Null)
              /\ outcome.fields[2] = (IF Succeeded("ots_getInternalOperations") THEN "internalOps" ELSE EmptyList)
              /\ outcome.fields[3] = (IF Succeeded("ots_getTransactionError") THEN "errorData" ELSE Null)

C15_Witness ==
    /\ Analysis
    /\ outcome.status = "returned"
    /\ options.retries >= 2
    /\ Failed("ots_traceTransaction")
    /\ Succeeded("ots_getInternalOperations")
    /\ Failed("ots_getTransactionError")

\* C16 as stated (best-effort contract deployment): getContractDeployment
\* never throws, whichever of its reads fails, under a policy of at least
\* one attempt.
C16_NeverPropagates == Deployment /\ options.retries >= 1 => outcome.status # "thrown"

\* C16 amended: getContractDeployment throws exactly when the
\* contract-creator lookup has failed for good, with that lookup's terminal
\* failure and before any other read is issued; once the lookup has
\* succeeded it never throws, and when the transaction fetch and the trace
\* fetch have each succeeded or failed it has returned the creator with each
\* of the two replaced by null if it failed.
C16_BestEffortAfterCreator ==
    Deployment =>
        /\ outcome.status = "thrown" <=> Failed("ots_getContractCreator")
        /\ outcome.status = "thrown" =>
              /\ Len(subs) = 1
              /\ outcome.error = [attempts |-> options.retries, message |-> subs[1].lastError]
        /\ Succeeded("ots_getContractCreator") =>
              /\ Len(subs) = 3
              /\ outcome.status = "returned" <=> AllSettled(subs)
              /\ outcome.status = "returned" =>
                    /\ Len(outcome.fields) = 3
                    /\ outcome.fields[1] = "creator"
                    /\ outcome.fields[2] = (IF Succeeded("eth_getTransactionByHash") THEN "transaction" ELSE Null)
                    /\ outcome.fields[3] = (IF Succeeded("ots_traceTransaction") THEN "trace" ELSE Null)

C16_Witness ==
    /\ Deployment
    /\ outcome.status = "returned"
    /\ options.retries >= 2
    /\ Failed("eth_getTransactionByHash")
    /\ Failed("ots_traceTransaction")

Composite == Analysis \/ Deployment

\* C17 as stated (concurrent fan-out): while a composite operation is
\* pending all three of its reads have been issued, each through
\* makeRpcCall with a retry sequence of its own.
C17_IssuedTogether ==
    Composite /\ outcome.status = "pending" =>
        /\ Len(subs) = 3
        /\ \A i \in DOMAIN subs : subs[i].retry

\* C17 amended: getTransactionAnalysis has its three reads issued from the
\* start, each through makeRpcCall; getContractDeployment has the
\* contract-creator lookup alone until it has succeeded, and from then on
\* the transaction fetch, a single call of the provider that is never
\* retried, and the trace fetch through makeRpcCall.  Every read keeps a
\* retry sequence of its own within the attempt budget, and in the returned
\* record a field holds its read's value exactly when that very read has
\* succeeded.
C17_FanOut ==
    /\ Analysis => Len(subs) = 3 /\ \A i \in DOMAIN subs : subs[i].retry
    /\ Deployment =>
          /\ Len(subs) \in {1, 3}
          /\ Len(subs) = 3 <=> Succeeded("ots_getContractCreator")
          /\ subs[1].retry
          /\ Len(subs) = 3 => ~subs[2].retry /\ subs[2].attempt = 0 /\ subs[3].retry
    /\ Composite =>
          /\ \A i \in DOMAIN subs :
                subs[i].pc \in {"send", "delay"} /\ subs[i].retry => subs[i].attempt < options.retries
          /\ outcome.status = "returned" =>
                \A i \in DOMAIN subs :
                    (outcome.fields[i] \notin {Null, EmptyList}) <=> subs[i].pc = "fulfilled"

C17_Witness ==
    /\ Analysis
    /\ outcome.status = "pending"
    /\ subs[1].pc = "delay" /\ subs[1].attempt = 0
    /\ subs[2].pc = "send" /\ subs[2].attempt = 1
    /\ subs[3].pc = "rejected"

(* ================ properties of the single-call operations ============= *)
SingleCall == op = "getApiLevel" \/ op \in DOMAIN MethodOf

\* C18 as stated (failure propagation of single-call operations): when the
\* call of a single-call operation has used up its attempts the operation
\* has thrown the dispatcher's terminal failure.
C18_SingleCallSurfaces ==
    SingleCall /\ options.retries >= 1 /\ rpc.pc = "thrown" =>
        /\ outcome.status = "thrown"
        /\ outcome.error = ExhaustedRetries

\* C18 amended: when the call of a single-call operation other than
\* isContract, or of a traversal, has used up its attempts the operation has
\* thrown the dispatcher's terminal failure; isContract has returned false
\* instead, and it never throws.
C18_SurfacesUnlessIsContract ==
    /\ (SingleCall \/ Traversal) /\ op # "isContract" /\ rpc.pc = "thrown" =>
          /\ outcome.status = "thrown"
          /\ outcome.error = ExhaustedRetries
    /\ op = "isContract" =>
          /\ outcome.status # "thrown"
          /\ rpc.pc = "thrown" => outcome.status = "returned" /\ outcome.payload = "false"

C18_Witness ==
    /\ op = "isContract"
    /\ options.retries >= 2
    /\ rpc.pc = "thrown"
    /\ Count("reject") = options.retries
    /\ outcome.payload = "false"

(* ====================== properties of the policy ======================= *)
\* C19 (fixed policy, fresh budget): the policy is at all times the one the
\* constructor built from its argument; the attempt counter of the call in
\* progress counts the rejections of that call alone, so a call that is
\* attempting or delaying has rejections to spare, and under a policy of
\* N >= 1 attempts a call has thrown only after N invocations of its own,
\* whichever request of an operation it is.
C19_FixedPolicy ==
    /\ options = Constructor(supplied)
    /\ rpc.pc \in {"send", "overdue", "delay"} =>
          /\ rpc.attempt = Count("reject") - (IF rpc.pc = "delay" THEN 1 ELSE 0)
          /\ rpc.attempt < options.retries
    /\ options.retries >= 1 /\ rpc.pc = "thrown" =>
          /\ Count("send") = options.retries
          /\ rpc.attempt = options.retries

C19_Witness ==
    /\ Forward
    /\ Len(requests) = 3
    /\ options.retries = 2
    /\ rpc.pc = "thrown"
    /\ Count("send") = 2

(* ================= properties of the backward cursor =================== *)
\* the lowest block number among the records of a page
Lowest(page) ==
    LET blocks == {ParseInt16(page.txs[i].blockNumber).val : i \in DOMAIN page.txs}
    IN  CHOOSE b \in blocks : \A c \in blocks : b <= c

\* C20 (backward cursor advance): the first request of the backward
\* traversal has toBlock as its cursor, and every later request has as its
\* cursor the lowest block number among the records of the page before it,
\* less one, in whatever order that page listed its records.
C20_CursorAdvance ==
    Backward =>
        /\ requests[1].block = BlockParam(back.toBlock)
        /\ \A k \in 2..Len(requests) : requests[k].block = Hex(Lowest(pages[k - 1]) - 1)

(* ================ properties of the backward stop test ================= *)
\* the page is not empty, is not flagged firstPage and has no record below
\* fromBlock
Continues(page) ==
    /\ page.txs # <<>>
    /\ ~page.firstPage
    /\ \A tx \in Elements(page.txs) : ParseInt16(tx.blockNumber).val >= LowerBound

\* C21 (exact backward stop condition): a received page is followed by
\* another page request exactly when it is not empty, not flagged firstPage
\* and wholly at or above fromBlock; after a page that is not, the traversal
\* has returned and the records of that page at or above fromBlock are in
\* its result.
C21_ExactStop ==
    Backward =>
        /\ \A k \in DOMAIN pages : k < Len(requests) <=> Continues(pages[k])
        /\ pages # <<>> /\ ~Continues(Last(pages)) =>
              /\ outcome.status = "returned"
              /\ \A tx \in Elements(Last(pages).txs) :
                    ParseInt16(tx.blockNumber).val >= LowerBound => tx \in Elements(outcome.txs)

C21_Witness ==
    /\ Backward
    /\ Len(pages) = 2
    /\ Len(requests) = 2
    /\ Continues(pages[1])
    /\ pages[2].firstPage
    /\ pages[2].txs # <<>>
    /\ outcome.status = "returned"
    /\ Len(outcome.txs) >= 2

(* ================== properties of the supplied options ================= *)
\* C22 (configured policy honoured): a supplied retries >= 1 is the attempt
\* count of the policy and a supplied retryDelay >= 0 is its delay, which
\* every delay of a call lasts; the defaults 3 and 1000 stand in only for a
\* value that was not supplied.
C22_PolicyHonoured ==
    /\ supplied.retries # Absent /\ supplied.retries[1] >= 1 =>
          /\ options.retries = supplied.retries[1]
          /\ Count("send") <= supplied.retries[1]
    /\ supplied.retryDelay # Absent /\ supplied.retryDelay[1] >= 0 =>
          /\ options.retryDelay = supplied.retryDelay[1]
          /\ \A i \in Positions("delay") : log[i].ms = supplied.retryDelay[1]
    /\ supplied.retries = Absent => options.retries = DefaultRetries
    /\ supplied.retryDelay = Absent => options.retryDelay = DefaultRetryDelay

(* ================= properties of the forward page index ================ *)
\* C23 (forward cursor sequence): after the getBlockDetails request, the
\* k-th request of getBlockWithTransactions asks for page k - 1 of the
\* caller's block with page size 100; a received page is followed by
\* another request exactly when it is not flagged lastPage.
C23_ForwardCursor ==
    Forward =>
        /\ requests[1] = BlockRequest("ots_getBlockDetails", fwd.blockNumber, 0, 0)
        /\ \A k \in 1..Len(requests) - 1 :
              requests[k + 1] =
                  BlockRequest("ots_getBlockTransactions", fwd.blockNumber, k - 1, BlockPageSize)
        /\ \A k \in DOMAIN pages : k + 1 < Len(requests) <=> ~pages[k].lastPage

C23_Witness ==
    /\ Forward
    /\ Len(requests) = 3
    /\ requests[3].page = 1
    /\ Len(pages) = 2
    /\ ~pages[1].lastPage
    /\ pages[2].lastPage
    /\ outcome.status = "returned"

(* ============== properties of the backward cursor sequence ============= *)
\* the number a cursor was built from: 'latest' lies above every block, any
\* other cursor is 0x and the digits of toString(16), a minus sign included
CursorValue(c) ==
    IF c = Latest THEN MaxBlock + 1
    ELSE CHOOSE n \in -1..MaxBlock : Hex(n) = c

\* C24 (backward traversal terminates): against a server that answers with
\* records below the requested cursor only, each request of the backward
\* traversal has a cursor strictly below the one before it, so a traversal
\* whose first cursor is c issues at most c + 2 requests, also when no page
\* is flagged firstPage and fromBlock is 'earliest'.
C24_CursorsDecrease ==
    Backward =>
        /\ \A k \in 1..Len(requests) - 1 :
              CursorValue(requests[k + 1].block) < CursorValue(requests[k].block)
        /\ Len(requests) <= CursorValue(requests[1].block) + 2

C24_Witness ==
    /\ Backward
    /\ back.fromBlock = Str(Earliest)
    /\ Len(requests) = 3
    /\ \A k \in DOMAIN pages : ~pages[k].firstPage
    /\ Ended

(* ================ properties of the cursors sent ======================= *)
\* C25 (cursor validity): the first cursor of the backward traversal is the
\* caller's toBlock and every later one is 0x followed by the hex digits of
\* a block number that is not negative.
C25_ValidCursors ==
    Backward =>
        /\ requests[1].block = BlockParam(back.toBlock)
        /\ \A k \in 2..Len(requests) :
              /\ IsStrictHex(requests[k].block)
              /\ ParseInt16(requests[k].block).val >= 0

====
